---- MODULE Spec2Model ----
(***************************************************************************)
(* A model of python-gearman's per-connection client command handler       *)
(* (gearman/client_handler.py), the worker's job lock and connection       *)
(* bookkeeping (gearman/worker.py) and the blocking admin client           *)
(* (gearman/admin_client.py).                                              *)
(*                                                                         *)
(* Every handler method is one action.  A method that raises is an action  *)
(* too: the exception it raised is recorded in the `outcome' field of the  *)
(* variable that remembers the last call, next to whatever the method had  *)
(* already changed before it raised.                                       *)
(***************************************************************************)
EXTENDS Naturals, Sequences, FiniteSets, TLC

\* ------------------------------------------------------------------ bounds
NumRequests == 2     \* JobRequest objects the caller creates
MaxFrames == 4       \* frames the server delivers to the client handler
NumConnections == 2  \* servers in the worker's connection_list
MaxHandlers == 3     \* command handlers the worker creates in one run
MaxAdminCalls == 3   \* calls made on the admin client
MaxSubmissions == 3  \* send_job_request calls when a request may be sent again

\* --------------------------------------------------------------- constants
JOB_PENDING == "PENDING"
JOB_QUEUED == "QUEUED"
JOB_FAILED == "FAILED"
JOB_COMPLETE == "COMPLETE"

None == "None"

Requests == 1..NumRequests
Handles == {"H1", "H2"}
Payloads == {"a", "b"}
\* WORK_STATUS / STATUS_RES carry numerator and denominator as text
StatusArgs == {<<"3", "10">>, <<"x", "10">>}
StatusResFlags == {<<"1", "0">>, <<"0", "1">>}

VARIABLES
    requests,                   \* the JobRequest objects: id -> fields
    requests_awaiting_handles,  \* deque of request ids (client_handler.py:18)
    handle_to_request_map,      \* dict: handle -> request id (client_handler.py:19)
    submitted,                  \* history: request ids in send_job_request order
    created,                    \* history: handles of the JOB_CREATED frames that popped a request
    nframes,                    \* frames delivered so far
    last                        \* the last call on the client handler and how it ended

clientVars == <<requests, requests_awaiting_handles, handle_to_request_map,
                submitted, created, nframes, last>>

VARIABLES
    connection_to_handler_map,         \* dict: connection -> its command handler
    handler_to_connection_map,         \* dict: command handler -> its connection
    command_handler_holding_job_lock,  \* worker.py:28
    worker_abilities,                  \* dict: task -> callback (worker.py:26)
    initial_abilities,                 \* handler_initial_state['abilities']
    handler_abilities,                 \* what each handler was last told by set_abilities
    handlers_created,                  \* handler objects instantiated so far
    wlast                              \* the last call on the worker and what it returned

VARIABLES
    work_pc,             \* where work() is: "idle", "poll" (inside a poll) or "returned"
    worker_connections,  \* the connections work() handed to the poll it is in
    stop_seen,           \* history: after_poll has returned False during this work()
    jlast                \* the last job run by on_job_execute and the packets it sent

\* work() and on_job_execute
jobVars == <<work_pc, worker_connections, stop_seen, jlast>>

workerVars == <<connection_to_handler_map, handler_to_connection_map,
                command_handler_holding_job_lock, worker_abilities,
                initial_abilities, handler_abilities, handlers_created, wlast,
                jobVars>>

VARIABLES
    pending_commands,   \* admin handler: the commands sent and not yet answered, oldest first
    response_queue,     \* admin handler: parsed responses not yet popped
    response_ready,     \* admin handler: the flag wait_until_server_responds polls on
    admin_calls,        \* admin calls made so far; the n-th call sends request n
    returned,           \* history: the requests whose response some call returned
    dropped,            \* history: the requests whose response was popped and rejected
    alast               \* the last admin call and how it ended

adminVars == <<pending_commands, response_queue, response_ready, admin_calls,
               returned, dropped, alast>>

vars == <<clientVars, workerVars, adminVars>>

\* ---------------------------------------------------------- pure helpers

\* float(text): the numbers the status frames of this model carry.
\* float() of text that is no number raises ValueError.
IsNumeric(text) == text \in {"0", "1", "3", "10"}
float(text) == CASE text = "0" -> 0 [] text = "1" -> 1 [] text = "3" -> 3
                 [] text = "10" -> 10 [] OTHER -> 0

\* decode_data: the pass-through hook of the base command handler
decode_data(data) == data

NewRequest ==
    [state |-> JOB_PENDING, handle |-> None, background |-> FALSE,
     result |-> None, exception |-> None, server_status |-> None,
     data_updates |-> <<>>, warning_updates |-> <<>>, status_updates |-> <<>>]

\* deque.append / deque.popleft
appendleft(queue, item) == <<item>> \o queue
append(queue, item) == Append(queue, item)

pop(queue) == [item |-> queue[Len(queue)], rest |-> SubSeq(queue, 1, Len(queue) - 1)]
popleft(queue) == [item |-> Head(queue), rest |-> Tail(queue)]

\* dict item assignment
SetItem(map, key, value) ==
    [k \in DOMAIN map \cup {key} |-> IF k = key THEN value ELSE map[k]]

assert_nothing(current_request, expected_state) == TRUE

\* _assert_request_state: TRUE when it returns, FALSE when it raises
\* InvalidClientState
assert_request_state(current_request, expected_state) ==
    current_request.state = expected_state

\* What handle_to_request_map[job_handle] followed by
\* _assert_request_state(current_request, JOB_QUEUED) ends with.
LookupQueued(map, reqs, job_handle) ==
    IF job_handle \notin DOMAIN map THEN "KeyError"
    ELSE IF ~assert_request_state(reqs[map[job_handle]], JOB_QUEUED)
         THEN "InvalidClientState"
         ELSE "ok"

\* ------------------------------------------------ the handler's methods
\* Each returns the outcome of the call and the fields it leaves behind.

\* recv_job_created without its emptiness test: popleft() of an empty deque
\* raises IndexError
RecvJobCreatedUnguarded(awaiting, map, reqs, job_handle) ==
    IF awaiting = <<>>
    THEN [outcome |-> "IndexError", popped |-> FALSE,
          awaiting |-> awaiting, map |-> map, reqs |-> reqs]
    ELSE LET head == popleft(awaiting)
             r == head.item
         IN IF ~assert_request_state(reqs[r], JOB_PENDING)
            THEN [outcome |-> "InvalidClientState", popped |-> TRUE,
                  awaiting |-> head.rest, map |-> map, reqs |-> reqs]
            ELSE [outcome |-> "ok", popped |-> TRUE,
                  awaiting |-> head.rest,
                  map |-> SetItem(map, job_handle, r),
                  reqs |-> [reqs EXCEPT ![r].handle = job_handle,
                                        ![r].state = JOB_QUEUED]]

RecvJobCreated(awaiting, map, reqs, job_handle) ==
    IF awaiting = <<>>
    THEN [outcome |-> "InvalidClientState", popped |-> FALSE,
          awaiting |-> awaiting, map |-> map, reqs |-> reqs]
    ELSE LET head == popleft(awaiting)
             r == head.item
         IN IF ~assert_request_state(reqs[r], JOB_PENDING)
            THEN [outcome |-> "InvalidClientState", popped |-> TRUE,
                  awaiting |-> head.rest, map |-> map, reqs |-> reqs]
            ELSE [outcome |-> "ok", popped |-> TRUE,
                  awaiting |-> head.rest,
                  map |-> SetItem(map, job_handle, r),
                  reqs |-> [reqs EXCEPT ![r].handle = job_handle,
                                        ![r].state = JOB_QUEUED]]

RecvWorkData(map, reqs, job_handle, data) ==
    LET o == LookupQueued(map, reqs, job_handle) IN
    IF o # "ok" THEN [outcome |-> o, reqs |-> reqs]
    ELSE [outcome |-> "ok",
          reqs |-> [reqs EXCEPT ![map[job_handle]].data_updates =
                        Append(@, decode_data(data))]]

RecvWorkWarning(map, reqs, job_handle, data) ==
    LET o == LookupQueued(map, reqs, job_handle) IN
    IF o # "ok" THEN [outcome |-> o, reqs |-> reqs]
    ELSE [outcome |-> "ok",
          reqs |-> [reqs EXCEPT ![map[job_handle]].warning_updates =
                        Append(@, decode_data(data))]]

RecvWorkStatus(map, reqs, job_handle, numerator, denominator) ==
    LET o == LookupQueued(map, reqs, job_handle) IN
    IF o # "ok" THEN [outcome |-> o, reqs |-> reqs]
    ELSE IF ~(IsNumeric(numerator) /\ IsNumeric(denominator))
         THEN [outcome |-> "ValueError", reqs |-> reqs]
         ELSE [outcome |-> "ok",
               reqs |-> [reqs EXCEPT ![map[job_handle]].status_updates =
                             Append(@, <<float(numerator), float(denominator)>>)]]

RecvWorkComplete(map, reqs, job_handle, data) ==
    LET o == LookupQueued(map, reqs, job_handle) IN
    IF o # "ok" THEN [outcome |-> o, reqs |-> reqs]
    ELSE [outcome |-> "ok",
          reqs |-> [reqs EXCEPT ![map[job_handle]].result = decode_data(data),
                                ![map[job_handle]].state = JOB_COMPLETE]]

RecvWorkFail(map, reqs, job_handle) ==
    LET o == LookupQueued(map, reqs, job_handle) IN
    IF o # "ok" THEN [outcome |-> o, reqs |-> reqs]
    ELSE [outcome |-> "ok",
          reqs |-> [reqs EXCEPT ![map[job_handle]].state = JOB_FAILED]]

\* recv_work_exception that also marks the request failed
RecvWorkExceptionFails(map, reqs, job_handle, data) ==
    LET o == LookupQueued(map, reqs, job_handle) IN
    IF o # "ok" THEN [outcome |-> o, reqs |-> reqs]
    ELSE [outcome |-> "ok",
          reqs |-> [reqs EXCEPT ![map[job_handle]].exception = decode_data(data),
                                ![map[job_handle]].state = JOB_FAILED]]

RecvWorkException(map, reqs, job_handle, data) ==
    LET o == LookupQueued(map, reqs, job_handle) IN
    IF o # "ok" THEN [outcome |-> o, reqs |-> reqs]
    ELSE [outcome |-> "ok",
          reqs |-> [reqs EXCEPT ![map[job_handle]].exception = decode_data(data)]]

RecvStatusRes(map, reqs, job_handle, known, running, numerator, denominator, now) ==
    LET o == LookupQueued(map, reqs, job_handle) IN
    IF o # "ok" THEN [outcome |-> o, reqs |-> reqs]
    ELSE IF ~(IsNumeric(numerator) /\ IsNumeric(denominator))
         THEN [outcome |-> "ValueError", reqs |-> reqs]
         ELSE [outcome |-> "ok",
               reqs |-> [reqs EXCEPT ![map[job_handle]].server_status =
                             [handle |-> job_handle,
                              known |-> (known = "1"),
                              running |-> (running = "1"),
                              numerator |-> float(numerator),
                              denominator |-> float(denominator),
                              time_received |-> now]]]

\* ------------------------------------------------------------- actions

\* args: what an accepted frame carried besides its handle
Call(op, req, handle, args, outcome) ==
    [op |-> op, req |-> req, handle |-> handle,
     args |-> IF outcome = "ok" THEN args ELSE <<>>, outcome |-> outcome]

\* the caller creates some requests with background=True
IsBackground(r) == r % 2 = 1

ClientInit ==
    /\ requests = [r \in Requests |->
                      [NewRequest EXCEPT !.background = IsBackground(r)]]
    /\ requests_awaiting_handles = <<>>
    /\ handle_to_request_map = <<>>
    /\ submitted = <<>>
    /\ created = <<>>
    /\ nframes = 0
    /\ last = Call("init", 0, None, <<>>, "ok")

\* "Register a newly created job request": the caller hands over a request
\* object it has not handed over before.
send_job_request(current_request) ==
    /\ current_request \notin {submitted[i] : i \in DOMAIN submitted}
    /\ requests_awaiting_handles' = append(requests_awaiting_handles, current_request)
    /\ submitted' = Append(submitted, current_request)
    /\ last' = Call("send_job_request", current_request, None, <<>>, "ok")
    /\ UNCHANGED <<requests, handle_to_request_map, created, nframes>>
    /\ UNCHANGED <<workerVars, adminVars>>

recv_job_created(job_handle) ==
    /\ nframes < MaxFrames
    /\ LET res == RecvJobCreated(requests_awaiting_handles, handle_to_request_map,
                                 requests, job_handle)
       IN /\ requests_awaiting_handles' = res.awaiting
          /\ handle_to_request_map' = res.map
          /\ requests' = res.reqs
          /\ created' = IF res.popped THEN Append(created, job_handle) ELSE created
          /\ last' = Call("recv_job_created",
                          IF res.popped THEN Head(requests_awaiting_handles) ELSE 0,
                          job_handle, <<>>, res.outcome)
    /\ nframes' = nframes + 1
    /\ UNCHANGED submitted
    /\ UNCHANGED <<workerVars, adminVars>>

\* The part every recv_work_* / recv_status_res action shares: only the
\* requests can change.
WorkFrame(op, job_handle, args, res) ==
    /\ nframes < MaxFrames
    /\ requests' = res.reqs
    /\ last' = Call(op,
                    IF job_handle \in DOMAIN handle_to_request_map
                    THEN handle_to_request_map[job_handle] ELSE 0,
                    job_handle, args, res.outcome)
    /\ nframes' = nframes + 1
    /\ UNCHANGED <<requests_awaiting_handles, handle_to_request_map, submitted, created>>
    /\ UNCHANGED <<workerVars, adminVars>>

recv_work_data(job_handle, data) ==
    WorkFrame("recv_work_data", job_handle, <<data>>,
              RecvWorkData(handle_to_request_map, requests, job_handle, data))

recv_work_warning(job_handle, data) ==
    WorkFrame("recv_work_warning", job_handle, <<data>>,
              RecvWorkWarning(handle_to_request_map, requests, job_handle, data))

recv_work_status(job_handle, numerator, denominator) ==
    WorkFrame("recv_work_status", job_handle, <<numerator, denominator>>,
              RecvWorkStatus(handle_to_request_map, requests, job_handle,
                             numerator, denominator))

recv_work_complete(job_handle, data) ==
    WorkFrame("recv_work_complete", job_handle, <<data>>,
              RecvWorkComplete(handle_to_request_map, requests, job_handle, data))

recv_work_fail(job_handle) ==
    WorkFrame("recv_work_fail", job_handle, <<>>,
              RecvWorkFail(handle_to_request_map, requests, job_handle))

recv_work_exception(job_handle, data) ==
    WorkFrame("recv_work_exception", job_handle, <<data>>,
              RecvWorkException(handle_to_request_map, requests, job_handle, data))

recv_status_res(job_handle, known, running, numerator, denominator) ==
    WorkFrame("recv_status_res", job_handle, <<known, running, numerator, denominator>>,
              RecvStatusRes(handle_to_request_map, requests, job_handle,
                            known, running, numerator, denominator, nframes + 1))

ClientNext ==
    \/ \E r \in Requests : send_job_request(r)
    \/ \E h \in Handles : recv_job_created(h)
    \/ \E h \in Handles, d \in Payloads : recv_work_data(h, d)
    \/ \E h \in Handles, d \in Payloads : recv_work_warning(h, d)
    \/ \E h \in Handles, s \in StatusArgs : recv_work_status(h, s[1], s[2])
    \/ \E h \in Handles, d \in Payloads : recv_work_complete(h, d)
    \/ \E h \in Handles : recv_work_fail(h)
    \/ \E h \in Handles, d \in Payloads : recv_work_exception(h, d)
    \/ \E h \in Handles, f \in StatusResFlags, s \in StatusArgs :
           recv_status_res(h, f[1], f[2], s[1], s[2])

\* The caller hands over a request object it has handed over before.
resend_job_request(current_request) ==
    /\ current_request \in {submitted[i] : i \in DOMAIN submitted}
    /\ Len(submitted) < MaxSubmissions
    /\ requests_awaiting_handles' = append(requests_awaiting_handles, current_request)
    /\ submitted' = Append(submitted, current_request)
    /\ last' = Call("send_job_request", current_request, None, <<>>, "ok")
    /\ UNCHANGED <<requests, handle_to_request_map, created, nframes>>
    /\ UNCHANGED <<workerVars, adminVars>>

ClientResendNext ==
    \/ ClientNext
    \/ \E r \in Requests : resend_job_request(r)

\* ================================================================ worker

Connections == 1..NumConnections
Tasks == {"reverse", "echo"}
Callbacks == {"returns", "raises"}
\* command_handler_holding_job_lock = None
NoHandler == 0
HandlersSoFar == 1..handlers_created

DelItem(map, key) == [k \in DOMAIN map \ {key} |-> map[k]]

\* set_job_lock with the test of an already taken lock left out
SetJobLockSteal(h2c, holder, command_handler, lock) ==
    IF command_handler \notin DOMAIN h2c
    THEN [result |-> FALSE, holder |-> holder]
    ELSE LET failed_unlock == ~lock /\ holder # command_handler
         IN IF failed_unlock
            THEN [result |-> FALSE, holder |-> holder]
            ELSE [result |-> TRUE,
                  holder |-> IF lock THEN command_handler ELSE NoHandler]

\* set_job_lock with the test of the handler's registration left out
SetJobLockUnregistered(h2c, holder, command_handler, lock) ==
    LET failed_lock == lock /\ holder # NoHandler
        failed_unlock == ~lock /\ holder # command_handler
    IN IF failed_lock \/ failed_unlock
       THEN [result |-> FALSE, holder |-> holder]
       ELSE [result |-> TRUE,
             holder |-> IF lock THEN command_handler ELSE NoHandler]

\* set_job_lock with the test of an unlock by a non-holder left out
SetJobLockAnyRelease(h2c, holder, command_handler, lock) ==
    IF command_handler \notin DOMAIN h2c
    THEN [result |-> FALSE, holder |-> holder]
    ELSE LET failed_lock == lock /\ holder # NoHandler
         IN IF failed_lock
            THEN [result |-> FALSE, holder |-> holder]
            ELSE [result |-> TRUE,
                  holder |-> IF lock THEN command_handler ELSE NoHandler]

\* set_job_lock: what it returns and the holder it leaves
SetJobLock(h2c, holder, command_handler, lock) ==
    IF command_handler \notin DOMAIN h2c
    THEN [result |-> FALSE, holder |-> holder]
    ELSE LET failed_lock == lock /\ holder # NoHandler
             failed_unlock == ~lock /\ holder # command_handler
         IN IF failed_lock \/ failed_unlock
            THEN [result |-> FALSE, holder |-> holder]
            ELSE [result |-> TRUE,
                  holder |-> IF lock THEN command_handler ELSE NoHandler]

check_job_lock(command_handler) ==
    command_handler_holding_job_lock = command_handler

\* GearmanConnectionManager.handle_error: close the connection and remove
\* both map entries
BaseHandleError(c2h, h2c, current_connection) ==
    IF current_connection \in DOMAIN c2h
    THEN [c2h |-> DelItem(c2h, current_connection),
          h2c |-> DelItem(h2c, c2h[current_connection])]
    ELSE [c2h |-> c2h, h2c |-> h2c]

\* handle_error with the two steps swapped: the handler is unregistered
\* first, so set_job_lock no longer knows it
HandleErrorUnregisterFirst(c2h, h2c, holder, current_connection) ==
    LET base == BaseHandleError(c2h, h2c, current_connection)
        unlock == IF current_connection \in DOMAIN c2h
                  THEN SetJobLock(base.h2c, holder, c2h[current_connection], FALSE)
                  ELSE [result |-> FALSE, holder |-> holder]
    IN [released |-> unlock.result, holder |-> unlock.holder,
        c2h |-> base.c2h, h2c |-> base.h2c]

\* handle_error without the unlock: only the base class's part
HandleErrorKeepsLock(c2h, h2c, holder, current_connection) ==
    LET base == BaseHandleError(c2h, h2c, current_connection)
    IN [released |-> FALSE, holder |-> holder,
        c2h |-> base.c2h, h2c |-> base.h2c]

\* GearmanWorker.handle_error
HandleError(c2h, h2c, holder, current_connection) ==
    LET unlock == IF current_connection \in DOMAIN c2h
                  THEN SetJobLock(h2c, holder, c2h[current_connection], FALSE)
                  ELSE [result |-> FALSE, holder |-> holder]
        base == BaseHandleError(c2h, h2c, current_connection)
    IN [released |-> unlock.result, holder |-> unlock.holder,
        c2h |-> base.c2h, h2c |-> base.h2c]

\* _update_initial_state: abilities = worker_abilities.keys()
UpdateInitialState(abilities) == DOMAIN abilities

\* register_task / unregister_task without the fan-out to the handlers
TellHandlersNobody(told, h2c, abilities) == told

\* the fan-out of register_task / unregister_task: set_abilities on every
\* registered handler
TellHandlers(told, h2c, abilities) ==
    [h \in DOMAIN told |-> IF h \in DOMAIN h2c THEN abilities ELSE told[h]]

NoJob == [conn |-> 0, task |-> None, how |-> None, value |-> None,
          result |-> FALSE, packets |-> <<>>]

WorkerCall(op, conn, handler, lock, result) ==
    [op |-> op, conn |-> conn, handler |-> handler, lock |-> lock, result |-> result]

WorkerInit ==
    /\ connection_to_handler_map = <<>>
    /\ handler_to_connection_map = <<>>
    /\ command_handler_holding_job_lock = NoHandler
    /\ worker_abilities = <<>>
    /\ initial_abilities = {}
    /\ handler_abilities = <<>>
    /\ handlers_created = 0
    /\ wlast = WorkerCall("init", 0, NoHandler, FALSE, FALSE)
    /\ work_pc = "idle"
    /\ worker_connections = {}
    /\ stop_seen = FALSE
    /\ jlast = NoJob

\* GearmanConnectionManager.attempt_connect on a connection that is down and
\* comes up: a new handler starts from handler_initial_state and is
\* registered in both maps
attempt_connect(current_connection) ==
    /\ current_connection \notin DOMAIN connection_to_handler_map
    /\ handlers_created < MaxHandlers
    /\ LET h == handlers_created + 1 IN
       /\ handlers_created' = h
       /\ connection_to_handler_map' = SetItem(connection_to_handler_map, current_connection, h)
       /\ handler_to_connection_map' = SetItem(handler_to_connection_map, h, current_connection)
       /\ handler_abilities' = SetItem(handler_abilities, h, initial_abilities)
       /\ wlast' = WorkerCall("attempt_connect", current_connection, h, FALSE, TRUE)
    /\ UNCHANGED <<command_handler_holding_job_lock, worker_abilities, initial_abilities>>
    /\ UNCHANGED jobVars
    /\ UNCHANGED <<clientVars, adminVars>>

register_task(task, callback_function) ==
    /\ worker_abilities' = SetItem(worker_abilities, task, callback_function)
    /\ initial_abilities' = UpdateInitialState(worker_abilities')
    /\ handler_abilities' = TellHandlers(handler_abilities, handler_to_connection_map,
                                         initial_abilities')
    /\ wlast' = WorkerCall("register_task", 0, NoHandler, FALSE, TRUE)
    /\ UNCHANGED <<connection_to_handler_map, handler_to_connection_map,
                   command_handler_holding_job_lock, handlers_created>>
    /\ UNCHANGED jobVars
    /\ UNCHANGED <<clientVars, adminVars>>

unregister_task(task) ==
    /\ worker_abilities' = DelItem(worker_abilities, task)
    /\ initial_abilities' = UpdateInitialState(worker_abilities')
    /\ handler_abilities' = TellHandlers(handler_abilities, handler_to_connection_map,
                                         initial_abilities')
    /\ wlast' = WorkerCall("unregister_task", 0, NoHandler, FALSE, TRUE)
    /\ UNCHANGED <<connection_to_handler_map, handler_to_connection_map,
                   command_handler_holding_job_lock, handlers_created>>
    /\ UNCHANGED jobVars
    /\ UNCHANGED <<clientVars, adminVars>>

\* a handler this worker created, registered or not, asks for or gives back
\* the job lock
set_job_lock(command_handler, lock) ==
    /\ LET res == SetJobLock(handler_to_connection_map,
                             command_handler_holding_job_lock, command_handler, lock)
       IN /\ command_handler_holding_job_lock' = res.holder
          /\ wlast' = WorkerCall("set_job_lock", 0, command_handler, lock, res.result)
    /\ UNCHANGED <<connection_to_handler_map, handler_to_connection_map,
                   worker_abilities, initial_abilities, handler_abilities,
                   handlers_created>>
    /\ UNCHANGED jobVars
    /\ UNCHANGED <<clientVars, adminVars>>

handle_error(current_connection) ==
    /\ LET res == HandleError(connection_to_handler_map, handler_to_connection_map,
                              command_handler_holding_job_lock, current_connection)
       IN /\ command_handler_holding_job_lock' = res.holder
          /\ connection_to_handler_map' = res.c2h
          /\ handler_to_connection_map' = res.h2c
          /\ wlast' = WorkerCall("handle_error", current_connection,
                                 IF current_connection \in DOMAIN connection_to_handler_map
                                 THEN connection_to_handler_map[current_connection]
                                 ELSE NoHandler,
                                 FALSE, res.released)
    /\ UNCHANGED <<worker_abilities, initial_abilities, handler_abilities,
                   handlers_created>>
    /\ UNCHANGED jobVars
    /\ UNCHANGED <<clientVars, adminVars>>

\* GearmanWorker.shutdown, then the base shutdown: close all connections and
\* drop all handlers
shutdown ==
    /\ command_handler_holding_job_lock' = NoHandler
    /\ connection_to_handler_map' = <<>>
    /\ handler_to_connection_map' = <<>>
    /\ wlast' = WorkerCall("shutdown", 0, NoHandler, FALSE, TRUE)
    /\ UNCHANGED <<worker_abilities, initial_abilities, handler_abilities,
                   handlers_created>>
    /\ UNCHANGED jobVars
    /\ UNCHANGED <<clientVars, adminVars>>

\* ---------------------------------------------------------- work()

\* attempt_connect on each connection of `up', which are down and come up
RECURSIVE ConnectAll(_, _, _, _, _, _)
ConnectAll(c2h, h2c, told, n, initial, up) ==
    IF up = {}
    THEN [c2h |-> c2h, h2c |-> h2c, told |-> told, n |-> n]
    ELSE LET c == CHOOSE x \in up : \A y \in up : x <= y
             h == n + 1
         IN ConnectAll(SetItem(c2h, c, h), SetItem(h2c, h, c),
                       SetItem(told, h, initial), h, initial, up \ {c})

\* handle_error on each connection of `dead'
RECURSIVE ErrorAll(_, _, _, _)
ErrorAll(c2h, h2c, holder, dead) ==
    IF dead = {}
    THEN [c2h |-> c2h, h2c |-> h2c, holder |-> holder]
    ELSE LET c == CHOOSE x \in dead : \A y \in dead : x <= y
             res == HandleError(c2h, h2c, holder, c)
         IN ErrorAll(res.c2h, res.h2c, res.holder, dead \ {c})

\* _get_worker_connections: the connections that are connected after
\* attempt_connect was tried on every one
GetWorkerConnections(c2h) == DOMAIN c2h

\* What poll_connections_until_stopped does after a wake: "continue" to wait
\* again, or return "true" / "false".  It returns true when the predicate
\* said stop and when the timeout elapsed, false when every connection it
\* was given is dead.
PollResult(callback_ok, any_alive, timed_out) ==
    IF ~callback_ok THEN "true"
    ELSE IF ~any_alive THEN "false"
    ELSE IF timed_out THEN "true"
    ELSE "continue"

\* after_poll of GearmanWorker returns True; a subclass may return False
AfterPoll == BOOLEAN

\* `while continue_working:' with continue_working the poll's return value
ContinueWorking(poll_result) == poll_result = "true"

CanConnect(up) ==
    /\ up \cap DOMAIN connection_to_handler_map = {}
    /\ handlers_created + Cardinality(up) <= MaxHandlers

\* work() is called: first pass of the loop, up to the poll
work(up) ==
    /\ work_pc \in {"idle", "returned"}
    /\ CanConnect(up)
    /\ LET conn == ConnectAll(connection_to_handler_map, handler_to_connection_map,
                              handler_abilities, handlers_created,
                              initial_abilities, up)
       IN /\ connection_to_handler_map' = conn.c2h
          /\ handler_to_connection_map' = conn.h2c
          /\ handler_abilities' = conn.told
          /\ handlers_created' = conn.n
          /\ worker_connections' = GetWorkerConnections(conn.c2h)
    /\ work_pc' = "poll"
    /\ stop_seen' = FALSE
    /\ wlast' = WorkerCall("work", 0, NoHandler, FALSE, TRUE)
    /\ UNCHANGED <<command_handler_holding_job_lock, worker_abilities,
                   initial_abilities, jlast>>
    /\ UNCHANGED <<clientVars, adminVars>>

\* One wake of the poll work() is in: the connections of `dead' failed, the
\* predicate returned callback_ok.  When the poll returns, work() either
\* goes round its loop, into the next poll, or returns.
poll_wake(dead, callback_ok, timed_out, up) ==
    /\ work_pc = "poll"
    /\ dead \subseteq worker_connections \cap DOMAIN connection_to_handler_map
    /\ LET err == ErrorAll(connection_to_handler_map, handler_to_connection_map,
                           command_handler_holding_job_lock, dead)
           any_alive == worker_connections \cap DOMAIN err.c2h # {}
           poll_result == PollResult(callback_ok, any_alive, timed_out)
       IN /\ command_handler_holding_job_lock' = err.holder
          /\ stop_seen' = (stop_seen \/ ~callback_ok)
          /\ wlast' = WorkerCall("poll", 0, NoHandler, FALSE, callback_ok)
          /\ IF poll_result = "continue"
             THEN /\ up = {}
                  /\ connection_to_handler_map' = err.c2h
                  /\ handler_to_connection_map' = err.h2c
                  /\ UNCHANGED <<handler_abilities, handlers_created,
                                 worker_connections, work_pc>>
             ELSE IF ContinueWorking(poll_result)
             THEN /\ up \cap DOMAIN err.c2h = {}
                  /\ handlers_created + Cardinality(up) <= MaxHandlers
                  /\ LET conn == ConnectAll(err.c2h, err.h2c, handler_abilities,
                                            handlers_created, initial_abilities, up)
                     IN /\ connection_to_handler_map' = conn.c2h
                        /\ handler_to_connection_map' = conn.h2c
                        /\ handler_abilities' = conn.told
                        /\ handlers_created' = conn.n
                        /\ worker_connections' = GetWorkerConnections(conn.c2h)
                  /\ work_pc' = "poll"
             ELSE /\ up = {}
                  /\ connection_to_handler_map' = err.c2h
                  /\ handler_to_connection_map' = err.h2c
                  /\ work_pc' = "returned"
                  /\ UNCHANGED <<handler_abilities, handlers_created,
                                 worker_connections>>
    /\ UNCHANGED <<worker_abilities, initial_abilities, jlast>>
    /\ UNCHANGED <<clientVars, adminVars>>

\* ---------------------------------------------------- on_job_execute

GEARMAN_COMMAND_WORK_COMPLETE == "WORK_COMPLETE"
GEARMAN_COMMAND_WORK_FAIL == "WORK_FAIL"

\* _get_handler_for_job
GetHandlerForJob(c2h, job_connection) == c2h[job_connection]

\* send_job_complete: the job's handler sends WORK_COMPLETE with the data
SendJobComplete(c2h, job_connection, data) ==
    [cmd |-> GEARMAN_COMMAND_WORK_COMPLETE,
     handler |-> GetHandlerForJob(c2h, job_connection), data |-> data]

\* send_job_failure: the job's handler sends WORK_FAIL
SendJobFailure(c2h, job_connection) ==
    [cmd |-> GEARMAN_COMMAND_WORK_FAIL,
     handler |-> GetHandlerForJob(c2h, job_connection), data |-> None]

OnJobException(c2h, job_connection) ==
    [result |-> FALSE, packets |-> <<SendJobFailure(c2h, job_connection)>>]

OnJobComplete(c2h, job_connection, job_result) ==
    [result |-> TRUE,
     packets |-> <<SendJobComplete(c2h, job_connection, job_result)>>]

\* on_job_execute whose except branch does not return: after the failure it
\* goes on to on_job_complete
OnJobExecuteFallsThrough(abilities, c2h, job_connection, task, job_result) ==
    IF task \notin DOMAIN abilities \/ abilities[task] = "raises"
    THEN [result |-> TRUE,
          packets |-> OnJobException(c2h, job_connection).packets
                      \o OnJobComplete(c2h, job_connection, job_result).packets]
    ELSE OnJobComplete(c2h, job_connection, job_result)

\* on_job_execute: the lookup of the task's callback (KeyError when the task
\* is not registered) and the callback itself are inside the try; a callback
\* "raises" an exception derived from Exception, or "returns" job_result
OnJobExecute(abilities, c2h, job_connection, task, job_result) ==
    IF task \notin DOMAIN abilities \/ abilities[task] = "raises"
    THEN OnJobException(c2h, job_connection)
    ELSE OnJobComplete(c2h, job_connection, job_result)

\* a handler hands the job it was assigned on its connection to the worker
on_job_execute(job_connection, task, job_result) ==
    /\ job_connection \in DOMAIN connection_to_handler_map
    /\ LET res == OnJobExecute(worker_abilities, connection_to_handler_map,
                               job_connection, task, job_result)
       IN jlast' = [conn |-> job_connection, task |-> task,
                    how |-> IF task \in DOMAIN worker_abilities
                            THEN worker_abilities[task] ELSE "missing",
                    value |-> job_result, result |-> res.result,
                    packets |-> res.packets]
    /\ UNCHANGED <<connection_to_handler_map, handler_to_connection_map,
                   command_handler_holding_job_lock, worker_abilities,
                   initial_abilities, handler_abilities, handlers_created, wlast>>
    /\ UNCHANGED <<work_pc, worker_connections, stop_seen>>
    /\ UNCHANGED <<clientVars, adminVars>>

JobNext ==
    \/ \E c \in Connections : attempt_connect(c)
    \/ \E t \in Tasks, f \in Callbacks : register_task(t, f)
    \/ \E t \in Tasks : unregister_task(t)
    \/ \E c \in Connections, t \in Tasks, d \in Payloads : on_job_execute(c, t, d)

WorkLoopNext ==
    \/ \E up \in SUBSET Connections : work(up)
    \/ \E dead \in SUBSET Connections, ok \in AfterPoll, t \in BOOLEAN,
          up \in SUBSET Connections : poll_wake(dead, ok, t, up)
    \/ \E t \in Tasks, f \in Callbacks : register_task(t, f)
    \/ \E t \in Tasks : unregister_task(t)

WorkerNext ==
    \/ \E c \in Connections : attempt_connect(c)
    \/ \E t \in Tasks, f \in Callbacks : register_task(t, f)
    \/ \E t \in Tasks : unregister_task(t)
    \/ \E h \in HandlersSoFar, lock \in BOOLEAN : set_job_lock(h, lock)
    \/ \E c \in Connections : handle_error(c)
    \/ shutdown

\* ================================================================= admin

ECHO_STRING == "ping? pong!"
GEARMAN_COMMAND_ECHO_REQ == "ECHO_REQ"
GEARMAN_SERVER_COMMAND_STATUS == "status"
GEARMAN_SERVER_COMMAND_VERSION == "version"
GEARMAN_SERVER_COMMAND_WORKERS == "workers"
GEARMAN_SERVER_COMMAND_MAXQUEUE == "maxqueue"
GEARMAN_SERVER_COMMAND_SHUTDOWN == "shutdown"

\* what an ECHO_RES can carry back
EchoData == {ECHO_STRING, "garbled"}
NoResponse == [kind |-> None, req |-> 0, data |-> None]

\* The handler's send_text_command / send_echo_request: remember the kind of
\* response to expect and clear response_ready.
SendCommand(pending, kind, req) ==
    [pending |-> Append(pending, [kind |-> kind, req |-> req]), ready |-> FALSE]

\* The handler on a complete response from the server, which answers the
\* oldest unanswered command: parse it, push (kind, parsed) and set
\* response_ready.
RecvResponse(pending, queue, data) ==
    LET cmd == Head(pending) IN
    [pending |-> Tail(pending),
     queue |-> Append(queue, [kind |-> cmd.kind, req |-> cmd.req,
                              data |-> IF cmd.kind = GEARMAN_COMMAND_ECHO_REQ
                                       THEN data ELSE cmd.kind]),
     ready |-> TRUE]

\* poll_connections_until_stopped with continue_while_no_response: the
\* server's next n responses arrive before the poll returns.  None arrives
\* when the timeout elapses first.
RECURSIVE Poll(_, _, _, _, _)
Poll(pending, queue, ready, n, data) ==
    IF n = 0 \/ pending = <<>>
    THEN [pending |-> pending, queue |-> queue, ready |-> ready]
    ELSE LET got == RecvResponse(pending, queue, data)
         IN Poll(got.pending, got.queue, got.ready, n - 1, data)

\* The handler's pop_response
PopResponse(queue) ==
    IF queue = <<>>
    THEN [resp |-> NoResponse, queue |-> queue, ready |-> FALSE]
    ELSE [resp |-> Head(queue), queue |-> Tail(queue), ready |-> Tail(queue) # <<>>]

Ended(outcome, value, popped, ready_after_poll, p, queue, ready) ==
    [outcome |-> outcome, value |-> value, popped |-> popped,
     ready_after_poll |-> ready_after_poll,
     pending |-> p.pending, queue |-> queue, ready |-> ready]

\* wait_until_server_responds without the test of the response's kind
WaitUntilServerRespondsAnyKind(pending, queue, ready, expected_type, n, data) ==
    LET p == Poll(pending, queue, ready, n, data) IN
    IF ~p.ready
    THEN Ended("timed out", NoResponse, NoResponse, FALSE, p, p.queue, p.ready)
    ELSE LET got == PopResponse(p.queue)
         IN Ended("returned", got.resp, got.resp, TRUE, p, got.queue, got.ready)

\* wait_until_server_responds without the test of response_ready after the poll
WaitUntilServerRespondsNoTimeout(pending, queue, ready, expected_type, n, data) ==
    LET p == Poll(pending, queue, ready, n, data)
        got == PopResponse(p.queue)
    IN IF got.resp.kind # expected_type
       THEN Ended("unexpected response", NoResponse, got.resp, p.ready, p,
                  got.queue, got.ready)
       ELSE Ended("returned", got.resp, got.resp, p.ready, p, got.queue, got.ready)

\* wait_until_server_responds: how the call ends (returned, or which
\* InvalidAdminClientState it raised), the value returned, the response
\* popped, and the handler's fields after it
WaitUntilServerResponds(pending, queue, ready, expected_type, n, data) ==
    LET p == Poll(pending, queue, ready, n, data) IN
    IF ~p.ready
    THEN Ended("timed out", NoResponse, NoResponse, FALSE, p, p.queue, p.ready)
    ELSE LET got == PopResponse(p.queue)
         IN IF got.resp.kind # expected_type
            THEN Ended("unexpected response", NoResponse, got.resp, TRUE, p,
                       got.queue, got.ready)
            ELSE Ended("returned", got.resp, got.resp, TRUE, p, got.queue, got.ready)

AdminInit ==
    /\ pending_commands = <<>>
    /\ response_queue = <<>>
    /\ response_ready = FALSE
    /\ admin_calls = 0
    /\ returned = {}
    /\ dropped = {}
    /\ alast = [op |-> "init", req |-> 0, expected |-> None, outcome |-> "returned",
                ready_after_poll |-> FALSE, value |-> NoResponse,
                popped |-> NoResponse]

\* What the six admin calls share: send the command, wait for the response.
\* ping_server also compares the echoed string.
AdminCall(op, kind, n, data) ==
    /\ admin_calls < MaxAdminCalls
    /\ admin_calls' = admin_calls + 1
    /\ LET sent == SendCommand(pending_commands, kind, admin_calls')
           res == WaitUntilServerResponds(sent.pending, response_queue, sent.ready,
                                          kind, n, data)
           mismatch == /\ op = "ping_server"
                       /\ res.outcome = "returned"
                       /\ res.value.data # ECHO_STRING
           outcome == IF mismatch THEN "echo mismatch" ELSE res.outcome
       IN /\ pending_commands' = res.pending
          /\ response_queue' = res.queue
          /\ response_ready' = res.ready
          /\ returned' = IF outcome = "returned"
                         THEN returned \cup {res.value.req} ELSE returned
          /\ dropped' = IF outcome = "unexpected response"
                        THEN dropped \cup {res.popped.req} ELSE dropped
          /\ alast' = [op |-> op, req |-> admin_calls', expected |-> kind,
                       outcome |-> outcome,
                       ready_after_poll |-> res.ready_after_poll,
                       value |-> IF outcome = "returned" THEN res.value ELSE NoResponse,
                       popped |-> res.popped]
    /\ UNCHANGED <<clientVars, workerVars>>

ping_server(n, data) == AdminCall("ping_server", GEARMAN_COMMAND_ECHO_REQ, n, data)
send_maxqueue(n) == AdminCall("send_maxqueue", GEARMAN_SERVER_COMMAND_MAXQUEUE, n, None)
send_shutdown(n) == AdminCall("send_shutdown", GEARMAN_SERVER_COMMAND_SHUTDOWN, n, None)
get_status(n) == AdminCall("get_status", GEARMAN_SERVER_COMMAND_STATUS, n, None)
get_version(n) == AdminCall("get_version", GEARMAN_SERVER_COMMAND_VERSION, n, None)
get_workers(n) == AdminCall("get_workers", GEARMAN_SERVER_COMMAND_WORKERS, n, None)

\* responses the server can deliver during one poll
Deliveries == 0..Len(pending_commands) + 1

AdminNext ==
    \/ \E n \in Deliveries, d \in EchoData : ping_server(n, d)
    \/ \E n \in Deliveries : send_maxqueue(n)
    \/ \E n \in Deliveries : send_shutdown(n)
    \/ \E n \in Deliveries : get_status(n)
    \/ \E n \in Deliveries : get_version(n)
    \/ \E n \in Deliveries : get_workers(n)

Init == ClientInit /\ WorkerInit /\ AdminInit

ClientSpec == Init /\ [][ClientNext]_vars

WorkerSpec == Init /\ [][WorkerNext]_vars
JobSpec == Init /\ [][JobNext]_vars

AdminSpec == Init /\ [][AdminNext]_vars

WorkLoopSpec == Init /\ [][WorkLoopNext]_vars

ClientResendSpec == Init /\ [][ClientResendNext]_vars

\* ============================================================== claims

\* A step that delivered a frame named op to the client handler
FrameStep(ops) == nframes' = nframes + 1 /\ last'.op \in ops

UpdateFrames == {"recv_work_data", "recv_work_warning", "recv_work_status"}
Terminal == {JOB_COMPLETE, JOB_FAILED}

\* C1: requests_awaiting_handles is popped in submission order: the requests
\* still waiting are exactly the submissions no JOB_CREATED frame has reached
\* yet, in submission order, and the request submitted k-th carries the
\* handle of the k-th JOB_CREATED frame.
C1_SubmitOrdering ==
    /\ Len(created) <= Len(submitted)
    /\ requests_awaiting_handles =
           SubSeq(submitted, Len(created) + 1, Len(submitted))
    /\ \A k \in 1..Len(created) :
           /\ requests[submitted[k]].handle = created[k]
           /\ requests[submitted[k]].state # JOB_PENDING

C1_Witness ==
    /\ Len(created) = 2
    /\ created[1] # created[2]
    /\ submitted = <<2, 1>>

\* C2: the only state changes of a request are PENDING -> QUEUED on
\* JOB_CREATED, QUEUED -> COMPLETE on WORK_COMPLETE and QUEUED -> FAILED on
\* WORK_FAIL; so nothing moves backward and COMPLETE and FAILED are final.
C2_Transition(r) ==
    \/ requests'[r].state = requests[r].state
    \/ /\ requests[r].state = JOB_PENDING
       /\ requests'[r].state = JOB_QUEUED
       /\ FrameStep({"recv_job_created"})
    \/ /\ requests[r].state = JOB_QUEUED
       /\ requests'[r].state = JOB_COMPLETE
       /\ FrameStep({"recv_work_complete"})
    \/ /\ requests[r].state = JOB_QUEUED
       /\ requests'[r].state = JOB_FAILED
       /\ FrameStep({"recv_work_fail"})

\* C2: every step changes every request's state by one of the three
\* permitted transitions or not at all.
C2_StateMonotonic == [][\A r \in Requests : C2_Transition(r)]_vars

\* a terminal request was sent a WORK_COMPLETE or WORK_FAIL frame and kept its state
C2_Witness ==
    \E r \in Requests :
        /\ requests[r].state \in Terminal
        /\ last.req = r
        /\ last.op \in {"recv_work_complete", "recv_work_fail"}
        /\ last.outcome = "InvalidClientState"
        /\ \E q \in Requests : requests[q].state = JOB_QUEUED

\* C5: recv_job_created with nothing awaiting a handle raises
\* InvalidClientState and changes neither a request nor the handle map.
C5_JobCreatedEmpty ==
    [][(FrameStep({"recv_job_created"}) /\ requests_awaiting_handles = <<>>)
        => /\ last'.outcome = "InvalidClientState"
           /\ requests' = requests
           /\ handle_to_request_map' = handle_to_request_map
           /\ requests_awaiting_handles' = <<>>]_vars

C5_Witness ==
    /\ last.op = "recv_job_created"
    /\ last.outcome = "InvalidClientState"
    /\ last.req = 0
    /\ \E r \in Requests : requests[r].state = JOB_QUEUED

\* C6: recv_work_data, recv_work_warning and recv_work_status raise
\* InvalidClientState when the handle is unknown and when the request is not
\* QUEUED, and then modify no update sequence.
C6_UpdateRejected ==
    [][(/\ FrameStep(UpdateFrames)
        /\ \/ last'.handle \notin DOMAIN handle_to_request_map
           \/ requests[handle_to_request_map[last'.handle]].state # JOB_QUEUED)
        => /\ last'.outcome = "InvalidClientState"
           /\ requests' = requests]_vars

\* C7: no two requests that carry a handle and are not terminal carry the
\* same handle, and the map returns each of them for its handle.
InFlight(r) == requests[r].handle # None /\ requests[r].state \notin Terminal

C7_HandleUnique ==
    \A r \in Requests :
        InFlight(r) =>
            /\ requests[r].handle \in DOMAIN handle_to_request_map
            /\ handle_to_request_map[requests[r].handle] = r
            /\ \A q \in Requests \ {r} :
                   InFlight(q) => requests[q].handle # requests[r].handle

\* C10: a submission no JOB_CREATED has reached stays PENDING and keeps its
\* place in requests_awaiting_handles whatever other frames arrive and
\* whatever is submitted after it; each JOB_CREATED moves it one place
\* forward, and the JOB_CREATED that finds it at the head gives it the
\* frame's handle and makes it QUEUED.
C10_Waiting(i) ==
    LET r == requests_awaiting_handles[i] IN
    IF FrameStep({"recv_job_created"})
    THEN IF i = 1
         THEN /\ requests'[r].state = JOB_QUEUED
              /\ requests'[r].handle = last'.handle
              /\ handle_to_request_map'[last'.handle] = r
              /\ last'.outcome = "ok"
         ELSE /\ requests_awaiting_handles'[i - 1] = r
              /\ requests'[r] = requests[r]
    ELSE /\ Len(requests_awaiting_handles') >= i
         /\ requests_awaiting_handles'[i] = r
         /\ requests'[r] = requests[r]

\* C10: every waiting request is PENDING, and every step treats every
\* waiting request as described above.
C10_PendingStaysQueued ==
    /\ [](\A i \in DOMAIN requests_awaiting_handles :
            requests[requests_awaiting_handles[i]].state = JOB_PENDING)
    /\ [][\A i \in DOMAIN requests_awaiting_handles : C10_Waiting(i)]_vars

\* a request is still waiting, second in line, after a frame for another
\* handle was accepted
C10_Witness ==
    /\ Len(requests_awaiting_handles) = 1
    /\ Len(created) = 1
    /\ last.op \in UpdateFrames
    /\ last.outcome = "ok"
    /\ requests[requests_awaiting_handles[1]].state = JOB_PENDING

\* C12: a request submitted with background=True is never COMPLETE or FAILED.
C12_BackgroundOnlyQueued ==
    \A r \in Requests : requests[r].background => requests[r].state \notin Terminal

\* C14: on an accepted WORK_STATUS, WORK_DATA or WORK_WARNING frame for
\* handle H every QUEUED request with handle H has the frame's value appended
\* to the matching update sequence, on an accepted WORK_COMPLETE it gets the
\* frame's data as result and becomes COMPLETE, and no request with another
\* handle changes.
C14_After(r, op, args) ==
    CASE op = "recv_work_status" ->
           [requests[r] EXCEPT !.status_updates =
                Append(@, <<float(args[1]), float(args[2])>>)]
      [] op = "recv_work_data" ->
           [requests[r] EXCEPT !.data_updates = Append(@, args[1])]
      [] op = "recv_work_warning" ->
           [requests[r] EXCEPT !.warning_updates = Append(@, args[1])]
      [] op = "recv_work_complete" ->
           [requests[r] EXCEPT !.result = args[1], !.state = JOB_COMPLETE]

C14_Frames == UpdateFrames \cup {"recv_work_complete"}

C14_OnFrame ==
    (FrameStep(C14_Frames) /\ last'.outcome = "ok") =>
        \A r \in Requests :
            IF requests[r].handle # last'.handle
            THEN requests'[r] = requests[r]
            ELSE requests[r].state = JOB_QUEUED
                    => requests'[r] = C14_After(r, last'.op, last'.args)

C14_UpdatesInOrder == [][C14_OnFrame]_vars

\* C17: an accepted recv_work_exception stores the data as the exception of
\* the request the handle maps to and changes nothing else: the request is
\* QUEUED before and after.
C17_OnException ==
    (FrameStep({"recv_work_exception"}) /\ last'.outcome = "ok") =>
        LET r == handle_to_request_map[last'.handle] IN
        /\ requests[r].state = JOB_QUEUED
        /\ requests' = [requests EXCEPT ![r].exception = decode_data(last'.args[1])]
        /\ requests'[r].state = JOB_QUEUED

C17_ExceptionKeepsState == [][C17_OnException]_vars

\* a request that took a WORK_EXCEPTION became terminal on a later frame
C17_Witness ==
    \E r \in Requests :
        /\ requests[r].exception # None
        /\ requests[r].state \in Terminal
        /\ last.op \in {"recv_work_complete", "recv_work_fail"}
        /\ last.req = r
        /\ last.outcome = "ok"

\* C20: a recv_* callback that raises leaves requests_awaiting_handles, the
\* handle map and every request as they were.
C20_Frames ==
    C14_Frames \cup {"recv_job_created", "recv_work_fail", "recv_work_exception",
                     "recv_status_res"}

C20_FailureChangesNothing ==
    [][(FrameStep(C20_Frames) /\ last'.outcome # "ok")
        => /\ requests_awaiting_handles' = requests_awaiting_handles
           /\ handle_to_request_map' = handle_to_request_map
           /\ requests' = requests]_vars

\* ------------------------------------------------------- worker claims

\* a step that is a call of set_job_lock / handle_error
WorkerStep(op) == wlast'.op = op

\* C3: a lock attempt never succeeds while a handler holds the job lock: it
\* returns False and the holder stays, so at no instant do two handlers pass
\* check_job_lock.
C3_LockDenied ==
    (/\ WorkerStep("set_job_lock")
     /\ wlast'.lock
     /\ command_handler_holding_job_lock # NoHandler)
    => /\ wlast'.result = FALSE
       /\ command_handler_holding_job_lock' = command_handler_holding_job_lock

\* C3: at most one handler passes check_job_lock, and every set_job_lock
\* step made while the lock is held is a denied one.
C3_SingleJob ==
    /\ [](Cardinality({h \in HandlersSoFar : check_job_lock(h)}) <= 1)
    /\ [][C3_LockDenied]_vars

\* a registered handler was refused the lock that another handler holds
C3_Witness ==
    /\ wlast.op = "set_job_lock"
    /\ wlast.lock
    /\ wlast.result = FALSE
    /\ wlast.handler \in DOMAIN handler_to_connection_map
    /\ command_handler_holding_job_lock \in DOMAIN handler_to_connection_map
    /\ command_handler_holding_job_lock # wlast.handler
    /\ check_job_lock(command_handler_holding_job_lock)
    /\ ~check_job_lock(wlast.handler)

\* C4: handle_error(c) releases the job lock when c's handler holds it and
\* leaves the holder alone otherwise; c's handler is unregistered after.
C4_OnError ==
    LET c == wlast'.conn IN
    WorkerStep("handle_error") =>
        /\ IF /\ c \in DOMAIN connection_to_handler_map
              /\ command_handler_holding_job_lock = connection_to_handler_map[c]
           THEN command_handler_holding_job_lock' = NoHandler
           ELSE command_handler_holding_job_lock' = command_handler_holding_job_lock
        /\ c \notin DOMAIN connection_to_handler_map'
        /\ wlast'.handler \notin DOMAIN handler_to_connection_map'

\* C4: every handle_error step releases the lock exactly when the failed
\* connection's handler held it.
C4_ErrorReleasesLock == [][C4_OnError]_vars

\* the connection of the lock holder failed while another connection was up
C4_Witness ==
    /\ wlast.op = "handle_error"
    /\ wlast.handler # NoHandler
    /\ wlast.result = TRUE
    /\ command_handler_holding_job_lock = NoHandler
    /\ DOMAIN connection_to_handler_map # {}

\* C15 as stated: a lock attempt succeeds, and makes the caller the holder,
\* if and only if the holder is None at the time of the call, whoever calls.
C15_OnAcquire ==
    (WorkerStep("set_job_lock") /\ wlast'.lock)
    => ((/\ wlast'.result = TRUE
         /\ command_handler_holding_job_lock' = wlast'.handler)
        <=> command_handler_holding_job_lock = NoHandler)

C15_AcquireIffFree == [][C15_OnAcquire]_vars

\* C15 amended: a lock attempt succeeds, and makes the caller the holder, if
\* and only if the holder is None and the caller is registered in
\* handler_to_connection_map; a refused attempt returns False and leaves the
\* holder as it was.
C15_OnAcquireRegistered ==
    (WorkerStep("set_job_lock") /\ wlast'.lock)
    => IF /\ command_handler_holding_job_lock = NoHandler
          /\ wlast'.handler \in DOMAIN handler_to_connection_map
       THEN /\ wlast'.result = TRUE
            /\ command_handler_holding_job_lock' = wlast'.handler
       ELSE /\ wlast'.result = FALSE
            /\ command_handler_holding_job_lock' = command_handler_holding_job_lock

C15_AcquireIffFreeAndRegistered == [][C15_OnAcquireRegistered]_vars

\* a handler whose connection was dropped was refused the free lock
C15_Witness ==
    /\ wlast.op = "set_job_lock"
    /\ wlast.lock
    /\ wlast.result = FALSE
    /\ command_handler_holding_job_lock = NoHandler
    /\ wlast.handler \notin DOMAIN handler_to_connection_map
    /\ DOMAIN handler_to_connection_map # {}

\* C16: an unlock succeeds, and sets the holder to None, if and only if the
\* caller is the holder; an unlock by any other handler returns False and
\* leaves the holder as it was.
C16_OnRelease ==
    (WorkerStep("set_job_lock") /\ ~wlast'.lock)
    => IF command_handler_holding_job_lock = wlast'.handler
       THEN /\ wlast'.result = TRUE
            /\ command_handler_holding_job_lock' = NoHandler
       ELSE /\ wlast'.result = FALSE
            /\ command_handler_holding_job_lock' = command_handler_holding_job_lock

C16_ReleaseIffHolder == [][C16_OnRelease]_vars

\* a registered handler that is not the holder was refused the unlock while
\* another handler holds the lock
C16_Witness ==
    /\ wlast.op = "set_job_lock"
    /\ ~wlast.lock
    /\ wlast.result = FALSE
    /\ wlast.handler \in DOMAIN handler_to_connection_map
    /\ command_handler_holding_job_lock \in DOMAIN handler_to_connection_map
    /\ command_handler_holding_job_lock # wlast.handler

\* C18: every registered handler has been told exactly the worker's current
\* task names, and handler_initial_state['abilities'] is that same set.
C18_AbilitiesConsistent ==
    /\ initial_abilities = DOMAIN worker_abilities
    /\ \A h \in DOMAIN handler_to_connection_map :
          handler_abilities[h] = DOMAIN worker_abilities

\* a task was unregistered and another stays registered, two handlers are
\* registered, and a handler whose connection was dropped was not told
C18_Witness ==
    /\ wlast.op = "unregister_task"
    /\ DOMAIN worker_abilities # {}
    /\ Cardinality(DOMAIN handler_to_connection_map) = 2
    /\ \E h \in HandlersSoFar \ DOMAIN handler_to_connection_map :
          handler_abilities[h] # DOMAIN worker_abilities

\* C19: the job-lock holder is None or a handler registered in
\* handler_to_connection_map.
C19_HolderRegistered ==
    \/ command_handler_holding_job_lock = NoHandler
    \/ command_handler_holding_job_lock \in DOMAIN handler_to_connection_map

\* a connection was dropped while the handler of another connection held
\* the lock, and that handler still holds it
C19_Witness ==
    /\ wlast.op = "handle_error"
    /\ wlast.handler # NoHandler
    /\ wlast.result = FALSE
    /\ command_handler_holding_job_lock \in DOMAIN handler_to_connection_map
    /\ wlast.handler \notin DOMAIN handler_to_connection_map

\* -------------------------------------------------- on_job_execute claims

\* C13: every on_job_execute sends exactly one terminal packet, through the
\* handler of the job's connection: WORK_COMPLETE with the callback's result
\* when the callback returns, WORK_FAIL when it raises or the task has no
\* registered callback.
C13_OnExecute ==
    jlast' # jlast =>
        LET j == jlast' IN
        /\ Len(j.packets) = 1
        /\ j.packets[1].handler = connection_to_handler_map[j.conn]
        /\ IF j.how = "returns"
           THEN /\ j.packets[1].cmd = GEARMAN_COMMAND_WORK_COMPLETE
                /\ j.packets[1].data = j.value
                /\ j.result = TRUE
           ELSE /\ j.packets[1].cmd = GEARMAN_COMMAND_WORK_FAIL
                /\ j.result = FALSE

InQueue(req) == \E i \in DOMAIN response_queue : response_queue[i].req = req

\* C8: a call whose popped response is of another kind than expected raises
\* InvalidAdminClientState and returns nothing; the response is gone from the
\* response queue and no call, this one or a later one, returns it.
C8_KindChecked ==
    /\ (alast.popped # NoResponse /\ alast.popped.kind # alast.expected)
        => /\ alast.outcome = "unexpected response"
           /\ alast.value = NoResponse
           /\ alast.popped.req \in dropped
    /\ \A req \in dropped : req \notin returned /\ ~InQueue(req)

\* a response of the wrong kind was popped and rejected, and a later call
\* returned another response
C8_Witness ==
    /\ dropped # {}
    /\ alast.outcome = "returned"
    /\ alast.req \notin dropped
    /\ alast.value.req \notin dropped

\* C9: an admin call whose poll ends with response_ready false raises
\* InvalidAdminClientState (timed out), pops nothing from the response queue
\* and returns no value.
C9_OnTimeout ==
    (admin_calls' = admin_calls + 1 /\ ~alast'.ready_after_poll)
    => /\ alast'.outcome = "timed out"
       /\ alast'.value = NoResponse
       /\ alast'.popped = NoResponse
       /\ response_queue' = response_queue

\* C9: every admin call step that ends its poll without response_ready
\* raises the timeout and pops nothing.
C9_Timeout == [][C9_OnTimeout]_vars

\* a call timed out while an earlier response still sat in the queue
C9_Witness ==
    /\ alast.outcome = "timed out"
    /\ response_queue # <<>>
    /\ Len(pending_commands) >= 1

\* C21: every value an admin call returns is the server's response to the
\* request that same call sent; the late response to a call that timed out
\* is never the result of a later call.
C21_OwnResponse ==
    alast.outcome = "returned" => alast.value.req = alast.req

\* ---------------------------------------------------- work() claims

\* C11: once after_poll has returned False, work() polls no more and has
\* returned.
C11_ExitsOnStop == stop_seen => work_pc = "returned"

\* work() does return when every connection it polls is dead
C11_ReturnsWhenAllDead ==
    /\ work_pc = "returned"
    /\ ~stop_seen
    /\ handlers_created > 0

====
